---------------------------- MODULE Spec2Model ----------------------------
(***************************************************************************)
(* A model of the matatu card-game server: the rules engine                *)
(* (rules.js: getNextAction and its helpers) and the move handler          *)
(* (websocket/handlers/handleMove.ts).                                     *)
(*                                                                         *)
(* Cards are records [v, s] as on the wire: v is the rank (2..10, 11 Jack, *)
(* 15 Ace, 50 for a joker), s the suit ("H", "D", "S", "C", "R" red joker, *)
(* "B" black joker).  JavaScript null is modelled by NoCard / NoSuit.      *)
(***************************************************************************)
EXTENDS Integers, Sequences, FiniteSets, TLC

VARIABLES
    gameState,   \* the GameState object of the game GameId
    inStore,     \* TRUE while gameStates holds that object
    turnNo,      \* number of handleMove calls made so far
    lastCall,    \* what the last handleMove call was given and what it did
    call,        \* the parameters of a getNextAction call
    verdict,     \* the object getNextAction returned for `call`
    inFlight     \* two handleMove calls submitted together, and how far each is

vars == <<gameState, inStore, turnNo, lastCall, call, verdict, inFlight>>

sessionVars == <<gameState, inStore, turnNo, lastCall>>
engineVars == <<call, verdict>>

(***************************************************************************)
(* rules.js: constants                                                     *)
(***************************************************************************)
HEARTS == "H"
DIAMONDS == "D"
SPADES == "S"
CLUBS == "C"
RED_JOKER == "R"
BLACK_JOKER == "B"

TWO == 2
THREE == 3
EIGHT == 8
JACK == 11
ACE == 15
JOKER_VALUE == 50

SUIT_COLORS_RED == {HEARTS, DIAMONDS}
SUIT_COLORS_BLACK == {SPADES, CLUBS}

PENALTY_VALUES == {TWO, THREE, JOKER_VALUE}
JOKERS == {RED_JOKER, BLACK_JOKER}
SKIP_VALUES == {EIGHT, JACK}

JOKER_PENALTY_VALUE == 5

MASTER_CARD == [v |-> ACE, s |-> SPADES]

Null == "null"
NoCard == [v |-> 0, s |-> Null]
NoSuit == Null

Card(v, s) == [v |-> v, s |-> s]

Max(a, b) == IF a > b THEN a ELSE b
Min(a, b) == IF a < b THEN a ELSE b

(***************************************************************************)
(* rules.js: card type checkers                                            *)
(***************************************************************************)
isJoker(card) == card.s \in JOKERS

isMasterCard(card) == card.v = MASTER_CARD.v /\ card.s = MASTER_CARD.s

isAce(card) == card.v = ACE

isPenaltyCard(card) == card.v \in PENALTY_VALUES \/ isJoker(card)

\* A variant of isValidJokerMove that only looks at a joker being played.
isValidJokerMovePlayedOnly(card, prevCard, selectedSuit) ==
    IF ~isJoker(card) THEN FALSE
    ELSE LET targetSuit == IF selectedSuit # NoSuit THEN selectedSuit ELSE prevCard.s
         IN  IF card.s = RED_JOKER THEN targetSuit \in SUIT_COLORS_RED
             ELSE targetSuit \in SUIT_COLORS_BLACK

\* selectedSuit ?? (isJoker(card) ? prevCard.s : card.s), then the colour test
isValidJokerMove(card, prevCard, selectedSuit) ==
    IF ~isJoker(card) /\ ~isJoker(prevCard) THEN FALSE
    ELSE LET jokerCard == IF isJoker(card) THEN card ELSE prevCard
             targetSuit == IF selectedSuit # NoSuit THEN selectedSuit
                           ELSE IF isJoker(card) THEN prevCard.s ELSE card.s
         IN  IF jokerCard.s = RED_JOKER THEN targetSuit \in SUIT_COLORS_RED
             ELSE IF jokerCard.s = BLACK_JOKER THEN targetSuit \in SUIT_COLORS_BLACK
             ELSE FALSE

isBasicMatch(card, prevCard, selectedSuit) ==
    IF selectedSuit # NoSuit THEN card.s = selectedSuit
    ELSE \/ card.v = prevCard.v
         \/ card.s = prevCard.s
         \/ isValidJokerMove(card, prevCard, selectedSuit)

(***************************************************************************)
(* rules.js: card effects.  An action object is a record; a key the        *)
(* JavaScript object does not carry is 0 / FALSE here (the code reads      *)
(* them as `x || 0`).                                                      *)
(***************************************************************************)
Effect(type, penaltyCards, skipTurns, allowSuitChoice, message) ==
    [type |-> type, penaltyCards |-> penaltyCards, skipTurns |-> skipTurns,
     allowSuitChoice |-> allowSuitChoice, message |-> message]

\* A variant of getCardEffectAction in which only the 8 skips a turn.
getCardEffectActionEightOnly(card, isPenaltyActive) ==
    IF isJoker(card)
      THEN Effect("CHOOSE_SUIT", JOKER_PENALTY_VALUE, 0, TRUE, "Choose a suit for the joker")
    ELSE IF isMasterCard(card) /\ isPenaltyActive
      THEN Effect("END_TURN", 0, 0, FALSE, "Master card cancels all penalties")
    ELSE IF isAce(card) /\ ~isPenaltyActive
      THEN Effect("CHOOSE_SUIT", 0, 0, TRUE, "Choose a suit for the ace")
    ELSE IF card.v = TWO
      THEN Effect("APPLY_PENALTY", 2, 0, FALSE, "Next player draws 2 cards")
    ELSE IF card.v = THREE
      THEN Effect("APPLY_PENALTY", 3, 0, FALSE, "Next player draws 3 cards")
    ELSE IF card.v = EIGHT
      THEN Effect("SKIP_TURN", 0, 1, FALSE, "Next player skips their turn")
    ELSE Effect("END_TURN", 0, 0, FALSE, "Turn ends normally")

getCardEffectAction(card, isPenaltyActive) ==
    IF isJoker(card)
      THEN Effect("CHOOSE_SUIT", JOKER_PENALTY_VALUE, 0, TRUE, "Choose a suit for the joker")
    ELSE IF isMasterCard(card) /\ isPenaltyActive
      THEN Effect("END_TURN", 0, 0, FALSE, "Master card cancels all penalties")
    ELSE IF isAce(card) /\ ~isPenaltyActive
      THEN Effect("CHOOSE_SUIT", 0, 0, TRUE, "Choose a suit for the ace")
    ELSE IF card.v = TWO
      THEN Effect("APPLY_PENALTY", 2, 0, FALSE, "Next player draws 2 cards")
    ELSE IF card.v = THREE
      THEN Effect("APPLY_PENALTY", 3, 0, FALSE, "Next player draws 3 cards")
    ELSE IF card.v \in SKIP_VALUES
      THEN Effect("SKIP_TURN", 0, 1, FALSE, "Next player skips their turn")
    ELSE IF card.v = JOKER_VALUE
      THEN Effect("APPLY_PENALTY", JOKER_PENALTY_VALUE, 0, FALSE, "Next player draws 5 cards")
    ELSE Effect("END_TURN", 0, 0, FALSE, "Turn ends normally")

getCardPenaltyValue(card) ==
    IF isJoker(card) THEN JOKER_PENALTY_VALUE ELSE card.v

\* The object getNextAction returns: the effect's keys plus valid, the two
\* penalty counts and drawCards.
Action(valid, effect, nextPlayerPenaltyCount, currentPenaltyCount, drawCards) ==
    [valid |-> valid, type |-> effect.type,
     nextPlayerPenaltyCount |-> nextPlayerPenaltyCount,
     currentPenaltyCount |-> currentPenaltyCount,
     drawCards |-> drawCards,
     penaltyCards |-> effect.penaltyCards, skipTurns |-> effect.skipTurns,
     allowSuitChoice |-> effect.allowSuitChoice, message |-> effect.message]

\* A variant of calculatePenaltyAction in which an equal-weight penalty card
\* adds its weight to the pending total instead of replacing it.
calculatePenaltyActionAccumulating(playedCard, prevCard, currentPenaltyCount, selectedSuit) ==
    LET referenceSuit == IF selectedSuit # NoSuit THEN selectedSuit ELSE prevCard.s
        prevPenaltyValue == getCardPenaltyValue(prevCard)
        playedPenaltyValue == getCardPenaltyValue(playedCard)
        hasSameValue == isPenaltyCard(prevCard) /\ prevPenaltyValue = playedPenaltyValue
        hasSameSuit == isPenaltyCard(prevCard) /\ referenceSuit = playedCard.s
        isPrevCardStronger == isPenaltyCard(prevCard) /\ prevPenaltyValue > playedPenaltyValue
        isPrevCardWeaker == isPenaltyCard(prevCard) /\ prevPenaltyValue < playedPenaltyValue
        hasColorMatch == isValidJokerMove(playedCard, prevCard, selectedSuit)
        remainingPenalty == Max(currentPenaltyCount - playedPenaltyValue, 0)
        cardEffect == getCardEffectAction(playedCard, FALSE)
    IN  IF hasSameValue
          THEN Action(TRUE, Effect("TRANSFER_PENALTY", 0, 0, FALSE, "Penalty transferred to next player"),
                      currentPenaltyCount + playedPenaltyValue, 0, 0)
        ELSE IF hasSameSuit /\ isPrevCardWeaker
          THEN Action(TRUE, Effect("TRANSFER_PENALTY", 0, 0, FALSE, "Same suit weaker card - penalty transferred"),
                      playedPenaltyValue, 0, 0)
        ELSE IF (hasSameSuit \/ hasColorMatch) /\ isPrevCardStronger
          THEN Action(TRUE, Effect("REDUCE_PENALTY", 0, 0, FALSE, "Penalty reduced"),
                      0, remainingPenalty, remainingPenalty)
        ELSE IF hasColorMatch /\ isPrevCardWeaker
          THEN Action(TRUE, Effect("TRANSFER_PENALTY", 0, 0, FALSE, "Color match weaker - penalty increased"),
                      currentPenaltyCount + playedPenaltyValue, 0, 0)
        ELSE Action(TRUE, cardEffect, currentPenaltyCount + cardEffect.penaltyCards, 0, 0)

\* A variant of calculatePenaltyAction that reduces the penalty without
\* Math.max(.., 0).
calculatePenaltyActionUnclamped(playedCard, prevCard, currentPenaltyCount, selectedSuit) ==
    LET referenceSuit == IF selectedSuit # NoSuit THEN selectedSuit ELSE prevCard.s
        prevPenaltyValue == getCardPenaltyValue(prevCard)
        playedPenaltyValue == getCardPenaltyValue(playedCard)
        hasSameValue == isPenaltyCard(prevCard) /\ prevPenaltyValue = playedPenaltyValue
        hasSameSuit == isPenaltyCard(prevCard) /\ referenceSuit = playedCard.s
        isPrevCardStronger == isPenaltyCard(prevCard) /\ prevPenaltyValue > playedPenaltyValue
        isPrevCardWeaker == isPenaltyCard(prevCard) /\ prevPenaltyValue < playedPenaltyValue
        hasColorMatch == isValidJokerMove(playedCard, prevCard, selectedSuit)
        remainingPenalty == currentPenaltyCount - playedPenaltyValue
        cardEffect == getCardEffectAction(playedCard, FALSE)
    IN  IF hasSameValue
          THEN Action(TRUE, Effect("TRANSFER_PENALTY", 0, 0, FALSE, "Penalty transferred to next player"),
                      playedPenaltyValue, 0, 0)
        ELSE IF hasSameSuit /\ isPrevCardWeaker
          THEN Action(TRUE, Effect("TRANSFER_PENALTY", 0, 0, FALSE, "Same suit weaker card - penalty transferred"),
                      playedPenaltyValue, 0, 0)
        ELSE IF hasSameSuit /\ isPrevCardStronger
          THEN Action(TRUE, Effect("REDUCE_PENALTY", 0, 0, FALSE, "Penalty reduced"),
                      0, remainingPenalty, remainingPenalty)
        ELSE IF hasColorMatch /\ isPrevCardWeaker
          THEN Action(TRUE, Effect("TRANSFER_PENALTY", 0, 0, FALSE, "Color match weaker - penalty increased"),
                      currentPenaltyCount + playedPenaltyValue, 0, 0)
        ELSE IF hasColorMatch /\ isPrevCardStronger
          THEN Action(TRUE, Effect("REDUCE_PENALTY", 0, 0, FALSE, "Color match stronger - penalty reduced"),
                      0, remainingPenalty, remainingPenalty)
        ELSE Action(TRUE, cardEffect, currentPenaltyCount + cardEffect.penaltyCards, 0, 0)

\* Variants of calculatePenaltyAction: a reduction charged to the next player,
\* a same-suit transfer that accumulates, a colour-match transfer that
\* replaces, a fallback that replaces.
calculatePenaltyActionVariant(playedCard, prevCard, currentPenaltyCount, selectedSuit, variant) ==
    LET referenceSuit == IF selectedSuit # NoSuit THEN selectedSuit ELSE prevCard.s
        prevPenaltyValue == getCardPenaltyValue(prevCard)
        playedPenaltyValue == getCardPenaltyValue(playedCard)
        hasSameValue == isPenaltyCard(prevCard) /\ prevPenaltyValue = playedPenaltyValue
        hasSameSuit == isPenaltyCard(prevCard) /\ referenceSuit = playedCard.s
        isPrevCardStronger == isPenaltyCard(prevCard) /\ prevPenaltyValue > playedPenaltyValue
        isPrevCardWeaker == isPenaltyCard(prevCard) /\ prevPenaltyValue < playedPenaltyValue
        hasColorMatch == isValidJokerMove(playedCard, prevCard, selectedSuit)
        remainingPenalty == Max(currentPenaltyCount - playedPenaltyValue, 0)
        cardEffect == getCardEffectAction(playedCard, FALSE)
    IN  IF hasSameValue
          THEN Action(TRUE, Effect("TRANSFER_PENALTY", 0, 0, FALSE, "Penalty transferred to next player"),
                      playedPenaltyValue, 0, 0)
        ELSE IF hasSameSuit /\ isPrevCardWeaker
          THEN Action(TRUE, Effect("TRANSFER_PENALTY", 0, 0, FALSE, "Same suit weaker card - penalty transferred"),
                      IF variant = "sameSuitAccumulates"
                        THEN currentPenaltyCount + playedPenaltyValue ELSE playedPenaltyValue,
                      0, 0)
        ELSE IF hasSameSuit /\ isPrevCardStronger
          THEN Action(TRUE, Effect("REDUCE_PENALTY", 0, 0, FALSE, "Penalty reduced"),
                      IF variant = "reduceToNext" THEN remainingPenalty ELSE 0,
                      IF variant = "reduceToNext" THEN 0 ELSE remainingPenalty,
                      IF variant = "reduceToNext" THEN 0 ELSE remainingPenalty)
        ELSE IF hasColorMatch /\ isPrevCardWeaker
          THEN Action(TRUE, Effect("TRANSFER_PENALTY", 0, 0, FALSE, "Color match weaker - penalty increased"),
                      IF variant = "colourWeakerReplaces"
                        THEN playedPenaltyValue ELSE currentPenaltyCount + playedPenaltyValue,
                      0, 0)
        ELSE IF hasColorMatch /\ isPrevCardStronger
          THEN Action(TRUE, Effect("REDUCE_PENALTY", 0, 0, FALSE, "Color match stronger - penalty reduced"),
                      IF variant = "reduceToNext" THEN remainingPenalty ELSE 0,
                      IF variant = "reduceToNext" THEN 0 ELSE remainingPenalty,
                      IF variant = "reduceToNext" THEN 0 ELSE remainingPenalty)
        ELSE Action(TRUE, cardEffect,
                    IF variant = "fallbackReplaces"
                      THEN cardEffect.penaltyCards ELSE currentPenaltyCount + cardEffect.penaltyCards,
                    0, 0)

calculatePenaltyActionReducingToNext(playedCard, prevCard, currentPenaltyCount, selectedSuit) ==
    calculatePenaltyActionVariant(playedCard, prevCard, currentPenaltyCount, selectedSuit, "reduceToNext")

calculatePenaltyActionSameSuitAccumulating(playedCard, prevCard, currentPenaltyCount, selectedSuit) ==
    calculatePenaltyActionVariant(playedCard, prevCard, currentPenaltyCount, selectedSuit, "sameSuitAccumulates")

calculatePenaltyActionColourReplacing(playedCard, prevCard, currentPenaltyCount, selectedSuit) ==
    calculatePenaltyActionVariant(playedCard, prevCard, currentPenaltyCount, selectedSuit, "colourWeakerReplaces")

calculatePenaltyActionFallbackReplacing(playedCard, prevCard, currentPenaltyCount, selectedSuit) ==
    calculatePenaltyActionVariant(playedCard, prevCard, currentPenaltyCount, selectedSuit, "fallbackReplaces")

calculatePenaltyAction(playedCard, prevCard, currentPenaltyCount, selectedSuit) ==
    LET referenceSuit == IF selectedSuit # NoSuit THEN selectedSuit ELSE prevCard.s
        prevPenaltyValue == getCardPenaltyValue(prevCard)
        playedPenaltyValue == getCardPenaltyValue(playedCard)
        hasSameValue == isPenaltyCard(prevCard) /\ prevPenaltyValue = playedPenaltyValue
        hasSameSuit == isPenaltyCard(prevCard) /\ referenceSuit = playedCard.s
        isPrevCardStronger == isPenaltyCard(prevCard) /\ prevPenaltyValue > playedPenaltyValue
        isPrevCardWeaker == isPenaltyCard(prevCard) /\ prevPenaltyValue < playedPenaltyValue
        hasColorMatch == isValidJokerMove(playedCard, prevCard, selectedSuit)
        remainingPenalty == Max(currentPenaltyCount - playedPenaltyValue, 0)
        cardEffect == getCardEffectAction(playedCard, FALSE)
    IN  IF hasSameValue
          THEN Action(TRUE, Effect("TRANSFER_PENALTY", 0, 0, FALSE, "Penalty transferred to next player"),
                      playedPenaltyValue, 0, 0)
        ELSE IF hasSameSuit /\ isPrevCardWeaker
          THEN Action(TRUE, Effect("TRANSFER_PENALTY", 0, 0, FALSE, "Same suit weaker card - penalty transferred"),
                      playedPenaltyValue, 0, 0)
        ELSE IF hasSameSuit /\ isPrevCardStronger
          THEN Action(TRUE, Effect("REDUCE_PENALTY", 0, 0, FALSE, "Penalty reduced"),
                      0, remainingPenalty, remainingPenalty)
        ELSE IF hasColorMatch /\ isPrevCardWeaker
          THEN Action(TRUE, Effect("TRANSFER_PENALTY", 0, 0, FALSE, "Color match weaker - penalty increased"),
                      currentPenaltyCount + playedPenaltyValue, 0, 0)
        ELSE IF hasColorMatch /\ isPrevCardStronger
          THEN Action(TRUE, Effect("REDUCE_PENALTY", 0, 0, FALSE, "Color match stronger - penalty reduced"),
                      0, remainingPenalty, remainingPenalty)
        ELSE Action(TRUE, cardEffect, currentPenaltyCount + cardEffect.penaltyCards, 0, 0)

\* A variant of the INVALID_MOVE result that returns both counts as 0.
InvalidMoveClearingCounts(nextPlayerPenaltyCount, currentPenaltyCount, message) ==
    Action(FALSE, Effect("INVALID_MOVE", 0, 0, FALSE, message), 0, 0, 0)

InvalidMove(nextPlayerPenaltyCount, currentPenaltyCount, message) ==
    Action(FALSE, Effect("INVALID_MOVE", 0, 0, FALSE, message),
           nextPlayerPenaltyCount, currentPenaltyCount, 0)

\* params: [prevCard, playedCard, isPenaltyActive, selectedSuit,
\*          currentPenaltyCount, nextPlayerPenaltyCount]
\* Variants of getNextAction: one without the master card's exemption while
\* a penalty is pending, one that lets any Ace pass a pending penalty on, one
\* whose legality gate has no clause for Aces.
getNextActionVariant(params, variant) ==
    LET prevCard == params.prevCard
        playedCard == params.playedCard
        isPenaltyActive == params.isPenaltyActive
        selectedSuit == params.selectedSuit
        currentPenaltyCount == params.currentPenaltyCount
        cardEffect == getCardEffectAction(playedCard, isPenaltyActive)
        isValidMove ==
            \/ isBasicMatch(playedCard, prevCard, selectedSuit)
            \/ isMasterCard(playedCard)
            \/ (selectedSuit # NoSuit /\ playedCard.s = selectedSuit)
            \/ isValidJokerMove(playedCard, prevCard, selectedSuit)
            \/ (variant # "acesMustMatch" /\ isAce(playedCard))
    IN  IF prevCard = NoCard
          THEN Action(TRUE, cardEffect, cardEffect.penaltyCards, 0, 0)
        ELSE IF ~isValidMove
          THEN InvalidMove(params.nextPlayerPenaltyCount, currentPenaltyCount, "Cannot play")
        ELSE IF isPenaltyActive /\ currentPenaltyCount > 0
          THEN IF isMasterCard(playedCard) /\ variant # "masterNotExempt"
                 THEN Action(TRUE, cardEffect, 0, 0, 0)
               ELSE IF isPenaltyCard(playedCard) /\ isBasicMatch(playedCard, prevCard, selectedSuit)
                 THEN calculatePenaltyAction(playedCard, prevCard, currentPenaltyCount, selectedSuit)
               ELSE IF variant = "aceCounters" /\ isAce(playedCard)
                 THEN Action(TRUE, cardEffect, currentPenaltyCount, 0, 0)
               ELSE InvalidMove(params.nextPlayerPenaltyCount, currentPenaltyCount,
                                "Must play a penalty card or master card")
        ELSE IF isAce(playedCard) \/ isJoker(playedCard)
          THEN Action(TRUE, cardEffect, cardEffect.penaltyCards, 0, 0)
        ELSE Action(TRUE, cardEffect, cardEffect.penaltyCards, 0, 0)

getNextActionMasterNotExempt(params) == getNextActionVariant(params, "masterNotExempt")

getNextActionAceCounters(params) == getNextActionVariant(params, "aceCounters")

getNextActionAcesMustMatch(params) == getNextActionVariant(params, "acesMustMatch")

\* A variant of getNextAction that takes the previous card from the session
\* instead of its parameters.
getNextActionReadingSession(params) ==
    getNextActionVariant(
        [params EXCEPT !.prevCard = IF @ = NoCard THEN NoCard
                                    ELSE Card(gameState.currentCard.v, gameState.currentCard.s)],
        "none")

getNextAction(params) ==
    LET prevCard == params.prevCard
        playedCard == params.playedCard
        isPenaltyActive == params.isPenaltyActive
        selectedSuit == params.selectedSuit
        currentPenaltyCount == params.currentPenaltyCount
        cardEffect == getCardEffectAction(playedCard, isPenaltyActive)
        isValidMove ==
            \/ isBasicMatch(playedCard, prevCard, selectedSuit)
            \/ isMasterCard(playedCard)
            \/ (selectedSuit # NoSuit /\ playedCard.s = selectedSuit)
            \/ isValidJokerMove(playedCard, prevCard, selectedSuit)
            \/ isAce(playedCard)
    IN  IF prevCard = NoCard
          THEN Action(TRUE, cardEffect, cardEffect.penaltyCards, 0, 0)
        ELSE IF ~isValidMove
          THEN InvalidMove(params.nextPlayerPenaltyCount, currentPenaltyCount, "Cannot play")
        ELSE IF isPenaltyActive /\ currentPenaltyCount > 0
          THEN IF isMasterCard(playedCard)
                 THEN Action(TRUE, cardEffect, 0, 0, 0)
               ELSE IF isPenaltyCard(playedCard) /\ isBasicMatch(playedCard, prevCard, selectedSuit)
                 THEN calculatePenaltyAction(playedCard, prevCard, currentPenaltyCount, selectedSuit)
               ELSE InvalidMove(params.nextPlayerPenaltyCount, currentPenaltyCount,
                                "Must play a penalty card or master card")
        ELSE IF isAce(playedCard) \/ isJoker(playedCard)
          THEN Action(TRUE, cardEffect, cardEffect.penaltyCards, 0, 0)
        ELSE Action(TRUE, cardEffect, cardEffect.penaltyCards, 0, 0)

(***************************************************************************)
(* The session: one game, GameId, with the participants Players (in the    *)
(* key order of gameState.players).                                        *)
(***************************************************************************)
GameId == "g1"
Players == <<"p1", "p2">>
PlayerIds == {Players[i] : i \in DOMAIN Players}

PLAY_TIMEOUT_DURATION == 30000
minimumDeckSize == 5
CUTTING_VALUE == 7

PENALTY_CARDS == {2, 3, 50}

\* Bounds of the model.
MaxTurns == 2
MaxDraw == 2
MaxPlay == 2
MaxActions == 3

Last(seq) == seq[Len(seq)]

SameCard(a, b) == a.v = b.v /\ a.s = b.s

\* { v: action.v, s: action.s }
AsCard(action) == [v |-> action.v, s |-> action.s]

RECURSIVE MapAsCard(_)
MapAsCard(actions) ==
    IF actions = <<>> THEN <<>>
    ELSE <<AsCard(Head(actions))>> \o MapAsCard(Tail(actions))

IsDraw(action) == action.type = "DRAW"
IsPlay(action) == action.type = "PLAY"

\* deck.slice(-n): the last n elements; slice(-0) is the whole array
SliceLast(deck, n) ==
    IF n = 0 \/ n >= Len(deck) THEN deck
    ELSE SubSeq(deck, Len(deck) - n + 1, Len(deck))

validateDrawnCards(deck, drawnCards) ==
    IF Len(drawnCards) > Len(deck) THEN FALSE
    ELSE LET topCards == SliceLast(deck, Len(drawnCards))
         IN  \A index \in DOMAIN drawnCards :
                 /\ index \in DOMAIN topCards
                 /\ SameCard(topCards[index], drawnCards[index])

\* The results reshufflePlayedCards([], cards) can give: the cards in any order.
reshufflePlayedCards(cards) ==
    {[i \in DOMAIN cards |-> cards[f[i]]] : f \in Permutations(DOMAIN cards)}

\* A variant of WillReshuffle with a strict low-water mark.
WillReshuffleBelow(gs) ==
    Len(gs.deck) < minimumDeckSize /\ Len(gs.playedCards) > 1

WillReshuffle(gs) ==
    Len(gs.deck) <= minimumDeckSize /\ Len(gs.playedCards) > 1

\* A variant of handleDeckReshuffle that keeps the bottom card of the discard
\* pile instead of the top one.
handleDeckReshuffleKeepingBottom(gs, newDeck) ==
    IF WillReshuffle(gs)
      THEN [gs |-> [gs EXCEPT !.deck = newDeck \o gs.deck,
                              !.playedCards = <<gs.playedCards[1]>>],
            reshuffled |-> TRUE, count |-> Len(gs.playedCards) - 1]
      ELSE [gs |-> gs, reshuffled |-> FALSE, count |-> 0]

\* A variant of handleDeckReshuffle that puts the reshuffled cards on top of
\* the draw pile.
handleDeckReshuffleOnTop(gs, newDeck) ==
    IF WillReshuffle(gs)
      THEN [gs |-> [gs EXCEPT !.deck = gs.deck \o newDeck,
                              !.playedCards = <<gs.playedCards[Len(gs.playedCards)]>>],
            reshuffled |-> TRUE, count |-> Len(gs.playedCards) - 1]
      ELSE [gs |-> gs, reshuffled |-> FALSE, count |-> 0]

handleDeckReshuffle(gs, newDeck) ==
    IF WillReshuffle(gs)
      THEN LET topCard == gs.playedCards[Len(gs.playedCards)]
               cardsToReshuffle == SubSeq(gs.playedCards, 1, Len(gs.playedCards) - 1)
               remainingDeckCards == gs.deck
           IN  [gs |-> [gs EXCEPT !.deck = newDeck \o remainingDeckCards,
                                  !.playedCards = <<topCard>>],
                reshuffled |-> TRUE, count |-> Len(cardsToReshuffle)]
      ELSE [gs |-> gs, reshuffled |-> FALSE, count |-> 0]

\* deck.splice(-n) for n >= 1 removes the last n elements, all of them when
\* the deck holds fewer.  deckAtDraw records the deck the cards are taken from
\* (the deck after the reshuffle check).
processDrawAction(gs, from, drawnCards, newDeck) ==
    LET r == handleDeckReshuffle(gs, newDeck)
        n == Len(drawnCards)
        deck2 == SubSeq(r.gs.deck, 1, Max(Len(r.gs.deck) - n, 0))
    IN  [gs |-> [r.gs EXCEPT !.deck = deck2,
                             !.players[from] = @ \o drawnCards],
         success |-> TRUE, reshuffled |-> r.reshuffled,
         deckAtDraw |-> r.gs.deck]

getPenaltyValue(value) == IF value = 50 THEN 5 ELSE value

processPenaltyCard(gs, action) ==
    LET currentValue == gs.currentCard.v
        hasPrevious == currentValue \in PENALTY_CARDS
        newPenaltyValue == getPenaltyValue(action.v)
        previousValue == getPenaltyValue(currentValue)
    IN  IF action.v \in PENALTY_CARDS
          THEN IF hasPrevious
                 THEN IF previousValue = newPenaltyValue
                        THEN [gs EXCEPT !.activePenaltyCount = newPenaltyValue]
                      ELSE IF previousValue > newPenaltyValue
                        THEN [gs EXCEPT !.activePenaltyCount = 0]
                      ELSE [gs EXCEPT !.activePenaltyCount = newPenaltyValue]
                 ELSE [gs EXCEPT !.activePenaltyCount = newPenaltyValue]
          ELSE gs

\* A variant of processPlayAction that takes every 7 for the cutting card.
processPlayActionAnySeven(gs, from, action, newSuit) ==
    LET gs1 == IF gs.chosenSuit # NoSuit THEN [gs EXCEPT !.chosenSuit = NoSuit] ELSE gs
        gs2 == processPenaltyCard(gs1, action)
        isCuttingCard == action.v = CUTTING_VALUE
        gs3 == IF newSuit # NoSuit THEN [gs2 EXCEPT !.chosenSuit = newSuit] ELSE gs2
        hand == SelectSeq(gs3.players[from], LAMBDA c : ~(c.v = action.v /\ c.s = action.s))
        gs4 == [gs3 EXCEPT !.players[from] = hand,
                           !.playedCards = Append(@, action),
                           !.currentCard = action]
    IN  [gs |-> gs4, isCuttingCard |-> isCuttingCard, remainingCards |-> Len(hand)]

processPlayAction(gs, from, action, newSuit) ==
    LET gs1 == IF gs.chosenSuit # NoSuit THEN [gs EXCEPT !.chosenSuit = NoSuit] ELSE gs
        gs2 == processPenaltyCard(gs1, action)
        isCuttingCard == action.v = CUTTING_VALUE /\ action.s = gs.cuttingCard.s
        gs3 == IF newSuit # NoSuit THEN [gs2 EXCEPT !.chosenSuit = newSuit] ELSE gs2
        hand == SelectSeq(gs3.players[from], LAMBDA c : ~(c.v = action.v /\ c.s = action.s))
        gs4 == [gs3 EXCEPT !.players[from] = hand,
                           !.playedCards = Append(@, action),
                           !.currentCard = action]
    IN  [gs |-> gs4, isCuttingCard |-> isCuttingCard, remainingCards |-> Len(hand)]

\* A variant of playLoop that stops when the hand is empty rather than when
\* one card is left.
RECURSIVE playLoopStoppingAtZero(_, _, _, _, _, _, _)
playLoopStoppingAtZero(gs, from, playActions, newSuit, i, cuttingCardPlayed, log) ==
    IF i > Len(playActions)
      THEN [gs |-> gs, cuttingCardPlayed |-> cuttingCardPlayed, noCards |-> FALSE, log |-> log]
      ELSE LET actionCard == AsCard(playActions[i])
               result == processPlayAction(gs, from, actionCard, newSuit)
               cut == cuttingCardPlayed \/ result.isCuttingCard
               log2 == Append(log, [card |-> actionCard, after |-> result.gs,
                                    isCuttingCard |-> result.isCuttingCard,
                                    remainingCards |-> result.remainingCards])
           IN  IF result.remainingCards = 0
                 THEN [gs |-> result.gs, cuttingCardPlayed |-> cut, noCards |-> TRUE, log |-> log2]
                 ELSE playLoopStoppingAtZero(result.gs, from, playActions, newSuit, i + 1, cut, log2)

\* The for loop over playActions (handleMove.ts 257-278), from index i on.
\* It stops at the first play that leaves one card in the hand.  Each play
\* is logged with the game state it leaves.
RECURSIVE playLoop(_, _, _, _, _, _, _)
playLoop(gs, from, playActions, newSuit, i, cuttingCardPlayed, log) ==
    IF i > Len(playActions)
      THEN [gs |-> gs, cuttingCardPlayed |-> cuttingCardPlayed, noCards |-> FALSE, log |-> log]
      ELSE LET actionCard == AsCard(playActions[i])
               result == processPlayAction(gs, from, actionCard, newSuit)
               cut == cuttingCardPlayed \/ result.isCuttingCard
               log2 == Append(log, [card |-> actionCard, after |-> result.gs,
                                    isCuttingCard |-> result.isCuttingCard,
                                    remainingCards |-> result.remainingCards])
           IN  IF result.remainingCards = 1
                 THEN [gs |-> result.gs, cuttingCardPlayed |-> cut, noCards |-> TRUE, log |-> log2]
                 ELSE playLoop(result.gs, from, playActions, newSuit, i + 1, cut, log2)

RECURSIVE SumValues(_)
SumValues(hand) ==
    IF hand = <<>> THEN 0 ELSE Head(hand).v + SumValues(Tail(hand))

totalValue(gs, id) == SumValues(gs.players[id])

\* A variant of SortedPosition for a descending sort (b.totalValue - a.totalValue).
SortedPositionDescending(gs, i) ==
    1 + Cardinality({j \in DOMAIN Players :
            \/ totalValue(gs, Players[j]) > totalValue(gs, Players[i])
            \/ (totalValue(gs, Players[j]) = totalValue(gs, Players[i]) /\ j < i)})

\* Array.prototype.sort((a, b) => a.totalValue - b.totalValue) is stable:
\* the position of Players[i] in the sorted array.
SortedPosition(gs, i) ==
    1 + Cardinality({j \in DOMAIN Players :
            \/ totalValue(gs, Players[j]) < totalValue(gs, Players[i])
            \/ (totalValue(gs, Players[j]) = totalValue(gs, Players[i]) /\ j < i)})

playerCardSums(gs) ==
    [k \in DOMAIN Players |->
        LET i == CHOOSE i \in DOMAIN Players : SortedPosition(gs, i) = k
        IN  [id |-> Players[i], totalValue |-> totalValue(gs, Players[i])]]

\* Object.keys(gameState.players).find((id) => id !== from)
opponentOf(from) ==
    LET others == {i \in DOMAIN Players : Players[i] # from}
    IN  IF others = {} THEN "undefined"
        ELSE Players[CHOOSE i \in others : \A j \in others : i <= j]

\* endGame archives the session: gameStates no longer holds it afterwards.
storedAfterEndGame == FALSE

NoEnd == [winner |-> "none", loser |-> "none", reason |-> "none"]

NoRequest == [gameId |-> "none", from |-> "none", to |-> "none", cards |-> <<>>, newSuit |-> NoSuit]

\* What one handleMove call did: the request, the game state before the call
\* (pre), the deck its draws were taken from (deckAtDraw), the game state
\* after its draw phase (afterDraws), the resulting game state (gs), and what
\* the call sent, started and ended; clients is the set of players that had a
\* connection.
Outcome(req, pre, preStored, draw, gs, stored, error, ended, timerStarted, sent, log, now, clients) ==
    [req |-> req, pre |-> pre, preStored |-> preStored,
     deckAtDraw |-> draw.deckAtDraw, afterDraws |-> draw.gs, reshuffled |-> draw.reshuffled,
     gs |-> gs, stored |-> stored, error |-> error, ended |-> ended,
     timerStarted |-> timerStarted, sent |-> sent, log |-> log, now |-> now,
     clients |-> clients]

NoDraw(gs) == [gs |-> gs, success |-> TRUE, reshuffled |-> FALSE, deckAtDraw |-> gs.deck]

\* A variant of notifyMap that keeps the suit only for an Ace or a joker.
RECURSIVE notifyMapSuitChoosingOnly(_, _, _, _)
notifyMapSuitChoosingOnly(gs, cards, newSuit, i) ==
    IF i > Len(cards) THEN gs
    ELSE IF IsDraw(cards[i]) THEN notifyMapSuitChoosingOnly(gs, cards, newSuit, i + 1)
    ELSE notifyMapSuitChoosingOnly(
             [gs EXCEPT !.currentCard = cards[i],
                        !.chosenSuit = IF newSuit # NoSuit /\ (isAce(cards[i]) \/ isJoker(cards[i]))
                                         THEN newSuit ELSE NoSuit],
             cards, newSuit, i + 1)

\* The forEach over the players (handleMove.ts 323-366): cards.map makes every
\* card that is not a DRAW the currentCard and sets chosenSuit from newSuit.
RECURSIVE notifyMap(_, _, _, _)
notifyMap(gs, cards, newSuit, i) ==
    IF i > Len(cards) THEN gs
    ELSE IF IsDraw(cards[i]) THEN notifyMap(gs, cards, newSuit, i + 1)
    ELSE notifyMap([gs EXCEPT !.currentCard = cards[i],
                              !.chosenSuit = IF newSuit # NoSuit THEN newSuit ELSE NoSuit],
                   cards, newSuit, i + 1)

\* A variant of moveMessages that reports a reshuffle whenever the turn drew.
moveMessagesFlaggingDraws(gs, req, reshuffleOccurred, clients) ==
    LET to == SelectSeq(Players, LAMBDA id : id \in clients)
    IN  [k \in DOMAIN to |->
            [type |-> "MOVE", to |-> to[k], from |-> req.from, cards |-> req.cards,
             newSuit |-> req.newSuit, activePenaltyCount |-> gs.activePenaltyCount,
             currentCard |-> gs.currentCard, chosenSuit |-> gs.chosenSuit,
             currentTurn |-> gs.currentTurn,
             reshuffled |-> SelectSeq(req.cards, IsDraw) # <<>>]]

\* The MOVE messages of the forEach (handleMove.ts 323-366), one for every
\* player that clients holds a connection for (player?.ws.send).
moveMessages(gs, req, reshuffleOccurred, clients) ==
    LET to == SelectSeq(Players, LAMBDA id : id \in clients)
    IN  [k \in DOMAIN to |->
            [type |-> "MOVE", to |-> to[k], from |-> req.from, cards |-> req.cards,
             newSuit |-> req.newSuit, activePenaltyCount |-> gs.activePenaltyCount,
             currentCard |-> gs.currentCard, chosenSuit |-> gs.chosenSuit,
             currentTurn |-> gs.currentTurn, reshuffled |-> reshuffleOccurred]]

errorMessage(message) == <<[type |-> "ERROR", message |-> message]>>

\* Variants of handleMove: one that clears the wait timer before it validates
\* the request, one that hands the turn over before it checks for the end of
\* the game, one that does not reset the penalty count after notifying, one
\* that applies the plays before the draws.
handleMoveVariant(gs, stored, req, newDeck, now, clients, variant) ==
    LET gsErr == IF variant = "clearsTimerFirst" THEN [gs EXCEPT !.waitTimeout = Null] ELSE gs IN
    IF ~(stored /\ req.gameId = GameId)
      THEN Outcome(req, gs, stored, NoDraw(gs), gsErr, stored, "Game not found", NoEnd, FALSE,
                   errorMessage("Game not found"), <<>>, now, clients)
    ELSE IF req.from \notin PlayerIds
      THEN Outcome(req, gs, stored, NoDraw(gs), gsErr, stored, "Player not found in game", NoEnd, FALSE,
                   errorMessage("Player not found in game"), <<>>, now, clients)
    ELSE
      LET gs0 == [gs EXCEPT !.waitTimeout = Null]
          drawActions == SelectSeq(req.cards, IsDraw)
          playActions == SelectSeq(req.cards, IsPlay)
          playedFirst == playLoop(gs0, req.from, playActions, req.newSuit, 1, FALSE, <<>>)
          gsDraw == IF variant = "playsFirst" THEN playedFirst.gs ELSE gs0
          drawResult == IF drawActions # <<>>
                          THEN processDrawAction(gsDraw, req.from, MapAsCard(drawActions), newDeck)
                          ELSE NoDraw(gsDraw)
          reshuffleOccurred == drawResult.reshuffled
          played == IF variant = "playsFirst"
                      THEN [playedFirst EXCEPT !.gs = drawResult.gs]
                      ELSE playLoop(drawResult.gs, req.from, playActions, req.newSuit, 1, FALSE, <<>>)
          gsEnd == IF variant = "handsOverFirst"
                     THEN [played.gs EXCEPT !.currentTurn = req.to,
                                            !.turnExpiresAt = now + PLAY_TIMEOUT_DURATION]
                     ELSE played.gs
      IN  IF played.noCards
            THEN Outcome(req, gs, stored, drawResult, gsEnd, storedAfterEndGame, "none",
                         [winner |-> req.from, loser |-> opponentOf(req.from), reason |-> "NO_CARDS"],
                         FALSE, <<>>, played.log, now, clients)
          ELSE IF played.cuttingCardPlayed
            THEN LET sums == playerCardSums(played.gs)
                 IN  Outcome(req, gs, stored, drawResult, gsEnd, storedAfterEndGame, "none",
                             [winner |-> sums[1].id, loser |-> sums[2].id, reason |-> "CUTTING_CARD"],
                             FALSE, <<>>, played.log, now, clients)
          ELSE
            LET gs1 == [played.gs EXCEPT !.currentTurn = req.to,
                                         !.turnExpiresAt = now + PLAY_TIMEOUT_DURATION]
                gs2 == notifyMap(gs1, req.cards, req.newSuit, 1)
                sent == moveMessages(gs2, req, reshuffleOccurred, clients)
                gs3 == IF gs2.activePenaltyCount # 0 /\ variant # "keepsPenalty"
                         THEN [gs2 EXCEPT !.activePenaltyCount = 0] ELSE gs2
            IN  Outcome(req, gs, stored, drawResult, gs3, TRUE, "none", NoEnd, TRUE, sent,
                        played.log, now, clients)

handleMoveClearingTimerFirst(gs, stored, req, newDeck, now, clients) ==
    handleMoveVariant(gs, stored, req, newDeck, now, clients, "clearsTimerFirst")

handleMoveHandingOverFirst(gs, stored, req, newDeck, now, clients) ==
    handleMoveVariant(gs, stored, req, newDeck, now, clients, "handsOverFirst")

handleMoveKeepingPenalty(gs, stored, req, newDeck, now, clients) ==
    handleMoveVariant(gs, stored, req, newDeck, now, clients, "keepsPenalty")

handleMovePlayingFirst(gs, stored, req, newDeck, now, clients) ==
    handleMoveVariant(gs, stored, req, newDeck, now, clients, "playsFirst")

\* handleMove (handleMove.ts 214-373) for the request req, at time now, with
\* newDeck the order a reshuffle gives the reshuffled cards and clients the
\* players that have a connection.
handleMove(gs, stored, req, newDeck, now, clients) ==
    IF ~(stored /\ req.gameId = GameId)
      THEN Outcome(req, gs, stored, NoDraw(gs), gs, stored, "Game not found", NoEnd, FALSE,
                   errorMessage("Game not found"), <<>>, now, clients)
    ELSE IF req.from \notin PlayerIds
      THEN Outcome(req, gs, stored, NoDraw(gs), gs, stored, "Player not found in game", NoEnd, FALSE,
                   errorMessage("Player not found in game"), <<>>, now, clients)
    ELSE
      LET gs0 == [gs EXCEPT !.waitTimeout = Null]
          drawActions == SelectSeq(req.cards, IsDraw)
          playActions == SelectSeq(req.cards, IsPlay)
          drawResult == IF drawActions # <<>>
                          THEN processDrawAction(gs0, req.from, MapAsCard(drawActions), newDeck)
                          ELSE NoDraw(gs0)
          reshuffleOccurred == drawResult.reshuffled
          played == playLoop(drawResult.gs, req.from, playActions, req.newSuit, 1, FALSE, <<>>)
      IN  IF played.noCards
            THEN Outcome(req, gs, stored, drawResult, played.gs, storedAfterEndGame, "none",
                         [winner |-> req.from, loser |-> opponentOf(req.from), reason |-> "NO_CARDS"],
                         FALSE, <<>>, played.log, now, clients)
          ELSE IF played.cuttingCardPlayed
            THEN LET sums == playerCardSums(played.gs)
                 IN  Outcome(req, gs, stored, drawResult, played.gs, storedAfterEndGame, "none",
                             [winner |-> sums[1].id, loser |-> sums[2].id, reason |-> "CUTTING_CARD"],
                             FALSE, <<>>, played.log, now, clients)
          ELSE
            LET gs1 == [played.gs EXCEPT !.currentTurn = req.to,
                                         !.turnExpiresAt = now + PLAY_TIMEOUT_DURATION]
                gs2 == notifyMap(gs1, req.cards, req.newSuit, 1)
                sent == moveMessages(gs2, req, reshuffleOccurred, clients)
                gs3 == IF gs2.activePenaltyCount # 0
                         THEN [gs2 EXCEPT !.activePenaltyCount = 0] ELSE gs2
            IN  Outcome(req, gs, stored, drawResult, gs3, TRUE, "none", NoEnd, TRUE, sent,
                        played.log, now, clients)

(***************************************************************************)
(* The session after construction: a shuffled draw pile (its end is the    *)
(* top), one opening card on the discard pile, three cards in each hand.   *)
(***************************************************************************)
InitialGameState ==
    [gameId |-> GameId,
     players |-> [id \in PlayerIds |->
                     IF id = "p1" THEN <<Card(7, SPADES), Card(4, HEARTS), Card(9, DIAMONDS)>>
                     ELSE <<Card(2, CLUBS), Card(3, CLUBS), Card(8, DIAMONDS)>>],
     deck |-> <<Card(6, DIAMONDS), Card(10, HEARTS), Card(8, SPADES),
                Card(CUTTING_VALUE, CLUBS), Card(ACE, SPADES), Card(JOKER_VALUE, RED_JOKER)>>,
     playedCards |-> <<Card(4, CLUBS)>>,
     currentCard |-> Card(4, CLUBS),
     currentTurn |-> "p1",
     cuttingCard |-> Card(7, SPADES),
     chosenSuit |-> NoSuit,
     activePenaltyCount |-> 0,
     turnExpiresAt |-> PLAY_TIMEOUT_DURATION,
     waitTimeout |-> "timer"]

NoOutcome ==
    Outcome(NoRequest, InitialGameState, TRUE, NoDraw(InitialGameState), InitialGameState, TRUE,
            "none", NoEnd, FALSE, <<>>, <<>>, 0, PlayerIds)

NoCall == [prevCard |-> NoCard, playedCard |-> NoCard, isPenaltyActive |-> FALSE,
           selectedSuit |-> NoSuit, currentPenaltyCount |-> 0, nextPlayerPenaltyCount |-> 0]

NoVerdict == InvalidMove(0, 0, "none")

NoFlight == [jobs |-> <<>>]

(***************************************************************************)
(* The requests a client can send in a state.                              *)
(***************************************************************************)
SubAction(type, card) == [type |-> type, v |-> card.v, s |-> card.s]

RECURSIVE SubActions(_, _)
SubActions(type, cards) ==
    IF cards = <<>> THEN <<>>
    ELSE <<SubAction(type, Head(cards))>> \o SubActions(type, Tail(cards))

SeqToSet(seq) == {seq[i] : i \in DOMAIN seq}

\* The cards a turn claims to draw: the true top n cards of the draw pile, in
\* pile order, or a card that is not on top (one the actor already holds).
DrawClaims(gs, from) ==
    {<<>>}
    \cup {SliceLast(gs.deck, n) : n \in 1..Min(MaxDraw, Len(gs.deck))}
    \cup (IF gs.players[from] # <<>> THEN {<<gs.players[from][1]>>} ELSE {})

\* The cards a turn plays after claiming the draws drawn: up to MaxPlay
\* different cards out of the hand and the cards drawn (at most MaxActions
\* sub-actions in all), or one card the actor does not hold (the top discard).
PlayLists(gs, from, drawn) ==
    LET cand == SeqToSet(gs.players[from]) \cup SeqToSet(drawn)
        lists(n) == {l \in [1..n -> cand] : \A i, j \in 1..n : i # j => l[i] # l[j]}
    IN  UNION {lists(n) : n \in 0..Min(MaxPlay, MaxActions - Len(drawn))}
        \cup {<<AsCard(gs.currentCard)>>}

\* The cards array of a turn that claims the draws drawn: the draws and then
\* the plays, or one play and then one draw.
CardLists(gs, from, drawn) ==
    {SubActions("DRAW", drawn) \o SubActions("PLAY", p) : p \in PlayLists(gs, from, drawn)}
    \cup {SubActions("PLAY", p) \o SubActions("DRAW", drawn) :
             p \in {q \in PlayLists(gs, from, drawn) : Len(q) = 1 /\ Len(drawn) = 1}}

Request(gameId, from, to, cards, newSuit) ==
    [gameId |-> gameId, from |-> from, to |-> to, cards |-> cards, newSuit |-> newSuit]

\* The orders in which a reshuffle during this request can return the cards.
Shuffles(gs, req) ==
    IF SelectSeq(req.cards, IsDraw) # <<>> /\ WillReshuffle(gs)
      THEN reshufflePlayedCards(SubSeq(gs.playedCards, 1, Len(gs.playedCards) - 1))
      ELSE {<<>>}

\* lastCall holds an outcome without the resulting game state, which is
\* gameState itself.
Recorded(out) ==
    [k \in DOMAIN out \ {"gs", "stored"} |-> out[k]]

Init ==
    /\ gameState = InitialGameState
    /\ inStore = TRUE
    /\ turnNo = 0
    /\ lastCall = Recorded(NoOutcome)
    /\ inFlight = NoFlight
    /\ call = NoCall
    /\ verdict = NoVerdict

\* handleMove runs to completion on the request req.
Handle(req, newDeck, clients) ==
    /\ \E out \in {handleMove(gameState, inStore, req, newDeck, turnNo + 1, clients)} :
           /\ gameState' = out.gs
           /\ inStore' = out.stored
           /\ lastCall' = Recorded(out)
    /\ turnNo' = turnNo + 1
    /\ UNCHANGED <<engineVars, inFlight>>

\* A participant of the stored game sends a turn.
Move ==
    /\ turnNo < MaxTurns
    /\ inStore
    /\ \E from \in PlayerIds, to \in PlayerIds, newSuit \in {NoSuit, DIAMONDS} :
         \E drawn \in DrawClaims(gameState, from) :
           \E cards \in CardLists(gameState, from, drawn) :
             \E newDeck \in Shuffles(gameState, Request(GameId, from, to, cards, newSuit)) :
               Handle(Request(GameId, from, to, cards, newSuit), newDeck, PlayerIds)

\* A turn arrives for a game that gameStates does not hold.
MoveUnknownGame ==
    /\ turnNo < MaxTurns
    /\ \E gameId \in {"unknown"} \cup (IF inStore THEN {} ELSE {GameId}) :
         Handle(Request(gameId, "p1", "p2", <<>>, NoSuit), <<>>, PlayerIds)

\* A turn arrives from someone who has no hand in the game.
MoveStranger ==
    /\ turnNo < MaxTurns
    /\ inStore
    /\ Handle(Request(GameId, "stranger", "p2", <<>>, NoSuit), <<>>, PlayerIds)

\* A participant sends a turn of at most one sub-action while some
\* participant has no connection.
MoveWhileDisconnected ==
    /\ turnNo < MaxTurns
    /\ inStore
    /\ \E clients \in (SUBSET PlayerIds) \ {PlayerIds} :
         \E from \in PlayerIds, to \in PlayerIds :
           \E drawn \in DrawClaims(gameState, from) :
             \E cards \in {c \in CardLists(gameState, from, drawn) : Len(c) <= 1} :
               \E newDeck \in Shuffles(gameState, Request(GameId, from, to, cards, NoSuit)) :
                 Handle(Request(GameId, from, to, cards, NoSuit), newDeck, clients)

Next == Move \/ MoveUnknownGame \/ MoveStranger \/ MoveWhileDisconnected

Spec == Init /\ [][Next]_vars

(***************************************************************************)
(* The rules engine on its own: getNextAction applied to every call over   *)
(* a set of cards that holds each kind of card in every suit.              *)
(***************************************************************************)
MaxPenalty == 6

EngineSuits == {HEARTS, DIAMONDS, SPADES, CLUBS}
EngineRanks == {TWO, THREE, CUTTING_VALUE, EIGHT, 9, JACK, ACE}
EngineCards ==
    {Card(v, s) : v \in EngineRanks, s \in EngineSuits}
    \cup {Card(JOKER_VALUE, s) : s \in JOKERS}

EngineCalls ==
    [prevCard : EngineCards \cup {NoCard},
     playedCard : EngineCards,
     isPenaltyActive : BOOLEAN,
     selectedSuit : EngineSuits \cup {NoSuit},
     currentPenaltyCount : 0..MaxPenalty,
     nextPlayerPenaltyCount : {0, MaxPenalty}]

EngineInit ==
    /\ gameState = InitialGameState
    /\ inStore = TRUE
    /\ turnNo = 0
    /\ lastCall = Recorded(NoOutcome)
    /\ inFlight = NoFlight
    /\ call \in EngineCalls
    /\ verdict = NoVerdict

Evaluate ==
    /\ verdict = NoVerdict
    /\ verdict' = getNextAction(call)
    /\ UNCHANGED <<call, sessionVars, inFlight>>

EngineNext == Evaluate

EngineSpec == EngineInit /\ [][EngineNext]_vars

Evaluated == verdict # NoVerdict

(***************************************************************************)
(* Properties.  lastCall describes the latest handleMove call; the state   *)
(* variables hold what it left behind.                                     *)
(***************************************************************************)
Handled == lastCall.req # NoRequest

\* The call was for the stored game, by one of its participants.
Admitted ==
    /\ Handled
    /\ lastCall.preStored
    /\ lastCall.req.gameId = GameId
    /\ lastCall.req.from \in PlayerIds

Actor == lastCall.req.from

drawsOf(req) == MapAsCard(SelectSeq(req.cards, IsDraw))
playsOf(req) == MapAsCard(SelectSeq(req.cards, IsPlay))

\* The game state the i-th applied play of the latest call started from.
LogBefore(i) == IF i = 1 THEN lastCall.afterDraws ELSE lastCall.log[i - 1].after

\* The engine call for playing card on the game state gs.
EngineCallFor(gs, card) ==
    [prevCard |-> AsCard(gs.currentCard), playedCard |-> card,
     isPenaltyActive |-> gs.activePenaltyCount > 0,
     selectedSuit |-> gs.chosenSuit,
     currentPenaltyCount |-> gs.activePenaltyCount,
     nextPlayerPenaltyCount |-> 0]

EngineVerdictAt(i) == getNextAction(EngineCallFor(LogBefore(i), lastCall.log[i].card))

HandPositions(gs) ==
    UNION {{<<id, i>> : i \in DOMAIN gs.players[id]} : id \in PlayerIds}

CardCount(gs, c) ==
    Cardinality({pos \in HandPositions(gs) : SameCard(gs.players[pos[1]][pos[2]], c)})
    + Cardinality({i \in DOMAIN gs.deck : SameCard(gs.deck[i], c)})
    + Cardinality({i \in DOMAIN gs.playedCards : SameCard(gs.playedCards[i], c)})

TotalCards(gs) ==
    Cardinality(HandPositions(gs)) + Len(gs.deck) + Len(gs.playedCards)

DeckOfCards ==
    UNION {SeqToSet(InitialGameState.players[id]) : id \in PlayerIds}
    \cup SeqToSet(InitialGameState.deck) \cup SeqToSet(InitialGameState.playedCards)

\* C1: conservation.  In every reachable state each card of the deck is in
\* exactly one place among the hands, the draw pile and the discard pile, and
\* no other card is: the multiset of cards never changes.
Conservation ==
    /\ \A c \in DeckOfCards : CardCount(gameState, c) = 1
    /\ TotalCards(gameState) = TotalCards(InitialGameState)

SessionFields(gs) ==
    <<gs.players, gs.deck, gs.playedCards, AsCard(gs.currentCard), gs.chosenSuit,
      gs.activePenaltyCount, gs.currentTurn>>

\* C2: idempotent rejection.  When a play of the latest turn is one the engine
\* judges INVALID_MOVE on the state it is played on, the turn is aborted and
\* the session is as before the call: hands, deck, playedCards, currentCard,
\* chosenSuit, activePenaltyCount and currentTurn are unchanged.
InvalidMoveLeavesSession ==
    (\E i \in DOMAIN lastCall.log : ~EngineVerdictAt(i).valid)
        => /\ SessionFields(gameState) = SessionFields(lastCall.pre)
           /\ lastCall.error # "none"

\* C3: deck desynchronization.  A turn whose claimed draws are not the cards
\* on top of the draw pile (or are more than it holds) is answered with an
\* ERROR, leaves the deck and the actor's hand as they were, and applies none
\* of its plays.
DesyncDrawRejected ==
    (/\ Admitted
     /\ drawsOf(lastCall.req) # <<>>
     /\ ~validateDrawnCards(lastCall.deckAtDraw, drawsOf(lastCall.req)))
        => /\ lastCall.error # "none"
           /\ gameState.deck = lastCall.pre.deck
           /\ gameState.players[Actor] = lastCall.pre.players[Actor]
           /\ lastCall.log = <<>>

InPenaltyBranch == call.prevCard # NoCard /\ call.isPenaltyActive /\ call.currentPenaltyCount > 0

EqualWeightCall ==
    /\ InPenaltyBranch
    /\ isPenaltyCard(call.prevCard)
    /\ isPenaltyCard(call.playedCard)
    /\ getCardPenaltyValue(call.prevCard) = getCardPenaltyValue(call.playedCard)

\* C4: penalty precedence.  In the active-penalty branch, a penalty card played
\* on a penalty card of the same weight is never answered REDUCE_PENALTY, and
\* when the move is legal the verdict is TRANSFER_PENALTY with the next
\* player's penalty equal to that weight and the current penalty 0.
EqualWeightTransfers ==
    (Evaluated /\ EqualWeightCall)
        => /\ verdict.type # "REDUCE_PENALTY"
           /\ verdict.valid =>
                /\ verdict.type = "TRANSFER_PENALTY"
                /\ verdict.nextPlayerPenaltyCount = getCardPenaltyValue(call.playedCard)
                /\ verdict.currentPenaltyCount = 0

\* C4 witness: a legal 3 played on a 3 of another suit while 5 cards are pending.
EqualWeightWitness ==
    /\ Evaluated /\ EqualWeightCall /\ verdict.valid
    /\ call.playedCard.v = THREE
    /\ call.playedCard.s # call.prevCard.s
    /\ call.currentPenaltyCount = 5

\* C5: the orchestrator follows the engine.  After every play the engine
\* judges valid, activePenaltyCount is the next player's penalty of the
\* engine's verdict for that play.
PenaltyFollowsEngine ==
    \A i \in DOMAIN lastCall.log :
        EngineVerdictAt(i).valid
            => lastCall.log[i].after.activePenaltyCount = EngineVerdictAt(i).nextPlayerPenaltyCount

\* C6: the active card is the top discard.  In every state of the started
\* session currentCard has the rank and suit of the last element of
\* playedCards.
ActiveCardIsTopDiscard ==
    /\ gameState.playedCards # <<>>
    /\ SameCard(gameState.currentCard, Last(gameState.playedCards))

\* C6 witness: a turn that reshuffled the discard pile and then played a card.
ActiveCardAfterReshuffleWitness ==
    /\ Admitted /\ lastCall.reshuffled /\ lastCall.log # <<>>
    /\ Len(lastCall.pre.playedCards) > 2

\* C7: a card that is neither an Ace nor a joker clears the locked suit.  When
\* the last card an accepted turn played is not suit-choosing, chosenSuit is
\* empty after the turn, whatever newSuit the request carried.
NonChoosingPlayClearsSuit ==
    (/\ Admitted /\ lastCall.log # <<>>
     /\ ~isAce(Last(lastCall.log).card) /\ ~isJoker(Last(lastCall.log).card))
        => gameState.chosenSuit = NoSuit

EmptyHandEndsGame ==
    (/\ Admitted
     /\ gameState.players[Actor] = <<>>
     /\ \A i \in DOMAIN lastCall.log : ~lastCall.log[i].isCuttingCard)
        => /\ lastCall.ended.winner = Actor
           /\ lastCall.ended.reason = "NO_CARDS"

EndedByCuttingCard == Admitted /\ lastCall.ended.reason = "CUTTING_CARD"

HandTotal(id) == SumValues(gameState.players[id])

CuttingPlays == {i \in DOMAIN lastCall.log : lastCall.log[i].isCuttingCard}

OneCardPlays == {i \in DOMAIN lastCall.log : lastCall.log[i].remainingCards = 1}

IsCuttingCardOf(gs, card) == card.v = CUTTING_VALUE /\ card.s = gs.cuttingCard.s

\* Only the 7 of the cutting suit is taken for the cutting card, and only a
\* turn that played it ends with reason CUTTING_CARD.
OnlyCuttingCardCuts ==
    /\ \A i \in DOMAIN lastCall.log :
           lastCall.log[i].isCuttingCard <=> IsCuttingCardOf(lastCall.pre, lastCall.log[i].card)
    /\ lastCall.ended.reason = "CUTTING_CARD" => CuttingPlays # {}

CuttingCardEndsTurnAtOnce ==
    \A i \in CuttingPlays \ OneCardPlays :
        /\ i = Len(lastCall.log)
        /\ SessionFields(gameState) = SessionFields(lastCall.log[i].after)
        /\ lastCall.ended.reason = "CUTTING_CARD"

CountIn(seq, c) == Cardinality({i \in DOMAIN seq : SameCard(seq[i], c)})

IsPermutationOf(a, b) ==
    /\ Len(a) = Len(b)
    /\ \A c \in SeqToSet(a) \cup SeqToSet(b) : CountIn(a, c) = CountIn(b, c)

StructuralError ==
    IF ~(lastCall.preStored /\ lastCall.req.gameId = GameId) THEN "Game not found"
    ELSE "Player not found in game"

\* C15: structural errors.  A request for a game that gameStates does not hold,
\* or from someone without a hand in the game, is answered with the ERROR
\* 'Game not found' or 'Player not found in game' and changes nothing: the
\* game state and the store are as before, no timer is started, no MOVE is
\* sent and endGame is not called.
StructuralErrorsMutateNothing ==
    (Handled /\ ~Admitted) =>
        /\ lastCall.error = StructuralError
        /\ lastCall.sent = <<[type |-> "ERROR", message |-> StructuralError]>>
        /\ gameState = lastCall.pre
        /\ inStore = lastCall.preStored
        /\ ~lastCall.timerStarted
        /\ lastCall.ended = NoEnd
        /\ lastCall.log = <<>>

\* C15 witness: a stranger's request for the stored game, while its wait timer
\* is still pending.
StrangerWitness ==
    /\ Handled /\ lastCall.preStored
    /\ lastCall.req.gameId = GameId
    /\ lastCall.req.from \notin PlayerIds
    /\ lastCall.pre.waitTimeout # Null

Continues == Admitted /\ lastCall.ended = NoEnd

\* C16: turn handoff.  A turn sets currentTurn to the target, sets
\* turnExpiresAt to now + PLAY_TIMEOUT_DURATION and starts the turn timer if
\* and only if it was accepted and did not end the game; a turn that ends by
\* error or by NO_CARDS or CUTTING_CARD leaves currentTurn and turnExpiresAt
\* unchanged and starts no timer.
HandoffIffContinues ==
    Handled =>
        IF Continues
          THEN /\ gameState.currentTurn = lastCall.req.to
               /\ gameState.turnExpiresAt = lastCall.now + PLAY_TIMEOUT_DURATION
               /\ lastCall.timerStarted
          ELSE /\ gameState.currentTurn = lastCall.pre.currentTurn
               /\ gameState.turnExpiresAt = lastCall.pre.turnExpiresAt
               /\ ~lastCall.timerStarted

\* C16 witness: a second accepted turn that passed the turn on to the other
\* participant and moved the deadline.
HandoffWitness ==
    /\ Continues /\ lastCall.timerStarted
    /\ lastCall.req.to # lastCall.pre.currentTurn
    /\ lastCall.pre.turnExpiresAt # InitialGameState.turnExpiresAt
    /\ gameState.turnExpiresAt # lastCall.pre.turnExpiresAt

(***************************************************************************)
(* The server handling turns, or the engine evaluating one call: the        *)
(* specification for properties that speak of both.                         *)
(***************************************************************************)
PenaltyInit ==
    /\ gameState = InitialGameState
    /\ inStore = TRUE
    /\ turnNo = 0
    /\ lastCall = Recorded(NoOutcome)
    /\ inFlight = NoFlight
    /\ call \in EngineCalls \cup {NoCall}
    /\ verdict = NoVerdict

PenaltyNext ==
    \/ call = NoCall /\ Next
    \/ call # NoCall /\ Evaluate

PenaltySpec == PenaltyInit /\ [][PenaltyNext]_vars

\* C17: the pending penalty is never negative.  activePenaltyCount is >= 0 in
\* every game state a turn passes through or leaves and in every MOVE sent,
\* and the counts getNextAction returns (nextPlayerPenaltyCount,
\* currentPenaltyCount, drawCards) are >= 0 for counts >= 0 passed in.
PenaltyNeverNegative ==
    /\ gameState.activePenaltyCount >= 0
    /\ lastCall.afterDraws.activePenaltyCount >= 0
    /\ \A i \in DOMAIN lastCall.log : lastCall.log[i].after.activePenaltyCount >= 0
    /\ \A k \in DOMAIN lastCall.sent :
           lastCall.sent[k].type = "MOVE" => lastCall.sent[k].activePenaltyCount >= 0
    /\ (Evaluated /\ call.currentPenaltyCount >= 0 /\ call.nextPlayerPenaltyCount >= 0)
          => /\ verdict.nextPlayerPenaltyCount >= 0
             /\ verdict.currentPenaltyCount >= 0
             /\ verdict.drawCards >= 0

\* C17 witness: the engine reduced a pending penalty of 1 by a card of weight
\* 2, leaving 0.
PenaltyClampedWitness ==
    /\ Evaluated /\ verdict.type = "REDUCE_PENALTY"
    /\ call.currentPenaltyCount = 1
    /\ getCardPenaltyValue(call.playedCard) = 2
    /\ verdict.currentPenaltyCount = 0
    /\ verdict.drawCards = 0

LastPlay == Last(lastCall.log)

\* The card the last play of the latest call was played on.
LastPlayedOn == AsCard(LogBefore(Len(lastCall.log)).currentCard)

Weight(card) == IF card.v = JOKER_VALUE THEN 5 ELSE card.v

IsPenaltyRank(card) == card.v \in {2, 3, JOKER_VALUE}

\* C18: a played penalty card sets the pending penalty.  After an accepted
\* turn that did not end the game and whose last play is a penalty card (2, 3
\* or joker) on a card that is no penalty card or one of equal or lower
\* weight, the session's activePenaltyCount is the played card's weight
\* (2, 3, 5).
PenaltyCardSetsPending ==
    (/\ Continues /\ lastCall.log # <<>>
     /\ IsPenaltyRank(LastPlay.card)
     /\ (IsPenaltyRank(LastPlayedOn) => Weight(LastPlayedOn) <= Weight(LastPlay.card)))
        => gameState.activePenaltyCount = Weight(LastPlay.card)

ChosenSuitFollowsNewSuit ==
    Continues =>
        IF playsOf(lastCall.req) # <<>>
          THEN gameState.chosenSuit = lastCall.req.newSuit
          ELSE gameState.chosenSuit = lastCall.pre.chosenSuit

\* C20 witness: a card that is neither an Ace nor a joker played with a newSuit
\* on a session whose locked suit was empty.
ChosenSuitWitness ==
    /\ Continues /\ lastCall.log # <<>>
    /\ ~isAce(LastPlay.card) /\ ~isJoker(LastPlay.card)
    /\ lastCall.pre.chosenSuit = NoSuit
    /\ lastCall.req.newSuit = DIAMONDS
    /\ gameState.chosenSuit = DIAMONDS

(***************************************************************************)
(* The vocabulary of the rules, on the call the engine is evaluating.      *)
(***************************************************************************)
PrevW == IF isJoker(call.prevCard) THEN 5 ELSE call.prevCard.v

PlayedW == IF isJoker(call.playedCard) THEN 5 ELSE call.playedCard.v

Pending == call.currentPenaltyCount

RefSuit == IF call.selectedSuit # NoSuit THEN call.selectedSuit ELSE call.prevCard.s

JokerColours(joker) ==
    IF joker.s = RED_JOKER THEN {HEARTS, DIAMONDS}
    ELSE IF joker.s = BLACK_JOKER THEN {CLUBS, SPADES}
    ELSE {}

\* The joker among the two cards (the played one first) matches, by colour,
\* the locked suit or else the other card's suit.
JokerColourMatch ==
    IF isJoker(call.playedCard)
      THEN (IF call.selectedSuit # NoSuit THEN call.selectedSuit ELSE call.prevCard.s)
               \in JokerColours(call.playedCard)
    ELSE IF isJoker(call.prevCard)
      THEN (IF call.selectedSuit # NoSuit THEN call.selectedSuit ELSE call.playedCard.s)
               \in JokerColours(call.prevCard)
    ELSE FALSE

\* A legal penalty card answers a penalty card while a penalty is pending.
PenaltyResolution ==
    /\ Evaluated /\ InPenaltyBranch /\ verdict.valid
    /\ isPenaltyCard(call.prevCard)
    /\ isPenaltyCard(call.playedCard)

\* C22: reduce arithmetic.  While a penalty is pending, a legal penalty card
\* played on a stronger penalty card which it matches by the reference suit
\* (rule c) or by joker colour (rule e) gives REDUCE_PENALTY with
\* remaining = max(pending - playedW, 0), drawCards = currentPenaltyCount =
\* remaining and nextPlayerPenaltyCount = 0.
ReduceArithmetic ==
    (/\ PenaltyResolution /\ PrevW > PlayedW
     /\ (call.playedCard.s = RefSuit \/ JokerColourMatch))
        => /\ verdict.type = "REDUCE_PENALTY"
           /\ verdict.currentPenaltyCount = Max(Pending - PlayedW, 0)
           /\ verdict.drawCards = Max(Pending - PlayedW, 0)
           /\ verdict.nextPlayerPenaltyCount = 0

\* C22 witness: the 2 of hearts on the red joker with 5 pending leaves 3.
ReduceArithmeticWitness ==
    /\ PenaltyResolution
    /\ call.prevCard = Card(JOKER_VALUE, RED_JOKER)
    /\ call.playedCard = Card(TWO, HEARTS)
    /\ call.selectedSuit = NoSuit
    /\ Pending = 5
    /\ verdict.type = "REDUCE_PENALTY" /\ verdict.drawCards = 3

\* C23 as stated: when the previous penalty card's suit is the reference suit
\* and it is weaker than the played penalty card, the verdict is
\* TRANSFER_PENALTY with exactly playedW for the next player and 0 current.
PrevSuitWeakerTransfers ==
    (PenaltyResolution /\ call.prevCard.s = RefSuit /\ PrevW < PlayedW)
        => /\ verdict.type = "TRANSFER_PENALTY"
           /\ verdict.nextPlayerPenaltyCount = PlayedW
           /\ verdict.currentPenaltyCount = 0

\* C23 amended: when the played penalty card's suit is the reference suit and
\* the previous penalty card is weaker, the verdict is TRANSFER_PENALTY with
\* exactly playedW for the next player (the pending total is replaced) and 0
\* current.
SameSuitWeakerTransfers ==
    (PenaltyResolution /\ call.playedCard.s = RefSuit /\ PrevW < PlayedW)
        => /\ verdict.type = "TRANSFER_PENALTY"
           /\ verdict.nextPlayerPenaltyCount = PlayedW
           /\ verdict.currentPenaltyCount = 0

\* C23 witness: the 3 of hearts on the 2 of hearts with 5 pending passes 3 on.
SameSuitWeakerWitness ==
    /\ PenaltyResolution
    /\ call.prevCard = Card(TWO, HEARTS)
    /\ call.playedCard = Card(THREE, HEARTS)
    /\ Pending = 5
    /\ verdict.nextPlayerPenaltyCount = 3

\* C24: rule d.  While a penalty is pending, a legal joker played on a 2 or 3
\* which it matches by colour gives TRANSFER_PENALTY with pending + playedW
\* for the next player and 0 current.
ColourWeakerAccumulates ==
    (/\ PenaltyResolution
     /\ isJoker(call.playedCard) /\ ~isJoker(call.prevCard)
     /\ JokerColourMatch /\ PrevW < PlayedW)
        => /\ verdict.type = "TRANSFER_PENALTY"
           /\ verdict.nextPlayerPenaltyCount = Pending + PlayedW
           /\ verdict.currentPenaltyCount = 0

\* C24 witness: the red joker on the 3 of diamonds with 3 pending passes 8 on.
ColourWeakerWitness ==
    /\ PenaltyResolution
    /\ call.prevCard = Card(THREE, DIAMONDS)
    /\ call.playedCard = Card(JOKER_VALUE, RED_JOKER)
    /\ Pending = 3
    /\ verdict.nextPlayerPenaltyCount = 8

\* One of the rules a-e applies to the call.
RuleAtoE ==
    /\ isPenaltyCard(call.prevCard)
    /\ \/ PrevW = PlayedW
       \/ (call.playedCard.s = RefSuit /\ PrevW # PlayedW)
       \/ (JokerColourMatch /\ PrevW # PlayedW)

\* C25: fallback.  While a penalty is pending, a legal penalty card to which
\* none of the rules a-e applies (as whenever the previous card is no penalty
\* card) gets the type of its plain card effect (APPLY_PENALTY for a 2 or 3,
\* CHOOSE_SUIT for a joker), pending + its base weight for the next player and
\* 0 current.
FallbackAddsBaseWeight ==
    (/\ Evaluated /\ InPenaltyBranch /\ verdict.valid
     /\ isPenaltyCard(call.playedCard)
     /\ ~RuleAtoE)
        => /\ verdict.type = (IF isJoker(call.playedCard) THEN "CHOOSE_SUIT" ELSE "APPLY_PENALTY")
           /\ verdict.nextPlayerPenaltyCount = Pending + PlayedW
           /\ verdict.currentPenaltyCount = 0

\* C25 witness: the black joker on the 9 of clubs with 2 pending passes 7 on
\* and asks for a suit.
FallbackWitness ==
    /\ Evaluated /\ InPenaltyBranch /\ verdict.valid
    /\ call.prevCard = Card(9, CLUBS)
    /\ call.playedCard = Card(JOKER_VALUE, BLACK_JOKER)
    /\ Pending = 2
    /\ verdict.type = "CHOOSE_SUIT"
    /\ verdict.nextPlayerPenaltyCount = 7

\* C26: while a penalty is pending, the master card is valid whatever the
\* previous card and the locked suit are; it leaves 0 for the next player and
\* 0 current, and the verdict ends the turn without a suit choice.
MasterCardCancelsPenalty ==
    (/\ Evaluated
     /\ call.isPenaltyActive /\ Pending > 0
     /\ call.playedCard = Card(MASTER_CARD.v, MASTER_CARD.s))
        => /\ verdict.valid
           /\ verdict.nextPlayerPenaltyCount = 0
           /\ verdict.currentPenaltyCount = 0
           /\ verdict.type = "END_TURN"
           /\ ~verdict.allowSuitChoice

\* C26 witness: the master card on the 2 of hearts with diamonds locked, 5
\* pending and 6 carried for the next player.
MasterCardWitness ==
    /\ Evaluated /\ InPenaltyBranch
    /\ call.playedCard = Card(MASTER_CARD.v, MASTER_CARD.s)
    /\ call.prevCard = Card(TWO, HEARTS)
    /\ call.selectedSuit = DIAMONDS
    /\ Pending = 5
    /\ call.nextPlayerPenaltyCount = MaxPenalty
    /\ verdict.valid /\ verdict.nextPlayerPenaltyCount = 0

\* C27: while a penalty is pending, a played card that is neither the master
\* card nor a penalty card passing the basic match is rejected with
\* INVALID_MOVE; that includes Aces other than the master card and ordinary
\* cards matching the previous card.
OnlyPenaltyOrMasterCounters ==
    (/\ Evaluated /\ InPenaltyBranch
     /\ call.playedCard # Card(MASTER_CARD.v, MASTER_CARD.s)
     /\ ~(/\ isPenaltyCard(call.playedCard)
          /\ isBasicMatch(call.playedCard, call.prevCard, call.selectedSuit)))
        => /\ ~verdict.valid
           /\ verdict.type = "INVALID_MOVE"

\* C27 witness: the Ace of hearts on the 2 of hearts with 2 pending is
\* rejected although it passes the legality gate.
AceRejectedWitness ==
    /\ Evaluated /\ InPenaltyBranch
    /\ call.playedCard = Card(ACE, HEARTS)
    /\ call.prevCard = Card(TWO, HEARTS)
    /\ call.selectedSuit = NoSuit
    /\ Pending = 2
    /\ ~verdict.valid /\ verdict.type = "INVALID_MOVE"

\* C28: when a locked suit is set, a played card that is neither an Ace nor a
\* joker is legal only if its suit is the locked suit, whatever the previous
\* card is.
LockedSuitConstrains ==
    (/\ Evaluated
     /\ call.prevCard # NoCard
     /\ call.selectedSuit # NoSuit
     /\ ~isAce(call.playedCard) /\ ~isJoker(call.playedCard)
     /\ verdict.valid)
        => call.playedCard.s = call.selectedSuit

\* The legality gate, clause by clause.
LegalityGate ==
    \/ isBasicMatch(call.playedCard, call.prevCard, call.selectedSuit)
    \/ call.playedCard = Card(MASTER_CARD.v, MASTER_CARD.s)
    \/ (call.selectedSuit # NoSuit /\ call.playedCard.s = call.selectedSuit)
    \/ JokerColourMatch
    \/ call.playedCard.v = ACE

\* C29: with a previous card and no penalty pending, a move is valid iff it
\* passes the basic match, or is the master card, or has the locked suit, or
\* matches by joker colour the locked suit or the opposing card, or is an Ace;
\* every other move gets INVALID_MOVE.
GateDecidesValidity ==
    (/\ Evaluated
     /\ call.prevCard # NoCard
     /\ ~(call.isPenaltyActive /\ Pending > 0))
        => /\ verdict.valid <=> LegalityGate
           /\ ~LegalityGate => verdict.type = "INVALID_MOVE"

\* C29 witness: the Ace of hearts is accepted on the 7 of clubs with diamonds
\* locked, by the Ace clause alone.
AceAlwaysLegalWitness ==
    /\ Evaluated
    /\ call.prevCard = Card(CUTTING_VALUE, CLUBS)
    /\ call.playedCard = Card(ACE, HEARTS)
    /\ call.selectedSuit = DIAMONDS
    /\ ~call.isPenaltyActive
    /\ verdict.valid

\* C30: with no locked suit and no penalty pending, a joker is legal on a
\* card that is no joker iff that card's suit has the joker's colour, and a
\* card that is neither Ace nor joker is legal on a joker iff its suit has the
\* joker's colour (hearts and diamonds for the red joker, clubs and spades
\* for the black one); the 9 of hearts on the red joker ends the turn.
JokerColourSymmetric ==
    (/\ Evaluated
     /\ call.prevCard # NoCard
     /\ call.selectedSuit = NoSuit
     /\ ~(call.isPenaltyActive /\ Pending > 0))
        => /\ (isJoker(call.playedCard) /\ ~isJoker(call.prevCard))
                => (verdict.valid <=> call.prevCard.s \in JokerColours(call.playedCard))
           /\ (/\ isJoker(call.prevCard)
               /\ ~isJoker(call.playedCard) /\ call.playedCard.v # ACE)
                => (verdict.valid <=> call.playedCard.s \in JokerColours(call.prevCard))
           /\ (/\ call.prevCard = Card(JOKER_VALUE, RED_JOKER)
               /\ call.playedCard = Card(9, HEARTS))
                => (verdict.valid /\ verdict.type = "END_TURN")

\* C30 witness: the 9 of hearts played on the red joker.
NineOnRedJokerWitness ==
    /\ Evaluated
    /\ call.prevCard = Card(JOKER_VALUE, RED_JOKER)
    /\ call.playedCard = Card(9, HEARTS)
    /\ call.selectedSuit = NoSuit
    /\ ~call.isPenaltyActive
    /\ verdict.valid /\ verdict.type = "END_TURN"

\* The MOVE messages of the latest call addressed to id.
MovesTo(id) ==
    {k \in DOMAIN lastCall.sent : lastCall.sent[k].type = "MOVE" /\ lastCall.sent[k].to = id}

\* The draw phase of the latest call replenished the draw pile.
Replenished ==
    /\ drawsOf(lastCall.req) # <<>>
    /\ Len(lastCall.pre.deck) <= minimumDeckSize
    /\ Len(lastCall.pre.playedCards) > 1

NoPenaltyPending == ~(call.isPenaltyActive /\ Pending > 0)

\* C31: when the active-penalty branch does not apply (isPenaltyActive false,
\* or currentPenaltyCount 0), a legal Ace of any suit or a legal joker gives
\* CHOOSE_SUIT; a joker leaves 5 for the next player and an Ace 0, and the
\* current penalty is 0.
AceOrJokerChoosesSuit ==
    (/\ Evaluated /\ call.prevCard # NoCard
     /\ NoPenaltyPending
     /\ verdict.valid
     /\ (call.playedCard.v = ACE \/ isJoker(call.playedCard)))
        => /\ verdict.type = "CHOOSE_SUIT"
           /\ verdict.nextPlayerPenaltyCount = (IF isJoker(call.playedCard) THEN 5 ELSE 0)
           /\ verdict.currentPenaltyCount = 0

PlainEffectType(card) ==
    IF card.v = ACE \/ isJoker(card) THEN "CHOOSE_SUIT"
    ELSE IF card.v \in {TWO, THREE} THEN "APPLY_PENALTY"
    ELSE IF card.v \in {EIGHT, JACK} THEN "SKIP_TURN"
    ELSE "END_TURN"

\* The base weight of a card: 5 for a joker, its rank for a 2 or 3, else 0.
BaseWeight(card) ==
    IF isJoker(card) THEN 5
    ELSE IF card.v \in {TWO, THREE} THEN card.v
    ELSE 0

\* C33: first move.  With no previous card every played card is valid and the
\* verdict is the card-effect rule as if isPenaltyActive were false, whatever
\* isPenaltyActive and currentPenaltyCount are passed in, with current penalty
\* 0 and the card's base weight for the next player.
FirstMoveIgnoresPenalty ==
    (Evaluated /\ call.prevCard = NoCard)
        => /\ verdict.valid
           /\ verdict.type = PlainEffectType(call.playedCard)
           /\ verdict.currentPenaltyCount = 0
           /\ verdict.nextPlayerPenaltyCount = BaseWeight(call.playedCard)

\* C34: an INVALID_MOVE verdict has valid = false and returns both penalty
\* counts as they were passed in; valid = false occurs only with type
\* INVALID_MOVE and a valid verdict has another type.
InvalidMoveChangesNothing ==
    Evaluated =>
        /\ verdict.valid <=> verdict.type # "INVALID_MOVE"
        /\ ~verdict.valid =>
              /\ verdict.nextPlayerPenaltyCount = call.nextPlayerPenaltyCount
              /\ verdict.currentPenaltyCount = call.currentPenaltyCount

\* C34 witness: the Ace of hearts is rejected on the 2 of hearts with 5
\* pending and 6 carried for the next player, and both come back.
InvalidMoveWitness ==
    /\ Evaluated /\ InPenaltyBranch
    /\ call.playedCard = Card(ACE, HEARTS)
    /\ call.prevCard = Card(TWO, HEARTS)
    /\ Pending = 5
    /\ call.nextPlayerPenaltyCount = MaxPenalty
    /\ ~verdict.valid
    /\ verdict.nextPlayerPenaltyCount = MaxPenalty
    /\ verdict.currentPenaltyCount = 5

(***************************************************************************)
(* The rules engine beside a running session: one getNextAction call,      *)
(* made before or after the session's turns.                               *)
(***************************************************************************)
PurityTurns == 1

PurityCalls ==
    [prevCard : {NoCard, Card(TWO, HEARTS), Card(9, CLUBS), Card(JOKER_VALUE, RED_JOKER)},
     playedCard : {Card(THREE, HEARTS), Card(9, HEARTS), Card(JACK, CLUBS),
                   Card(ACE, SPADES), Card(JOKER_VALUE, BLACK_JOKER)},
     isPenaltyActive : BOOLEAN,
     selectedSuit : {NoSuit, DIAMONDS},
     currentPenaltyCount : {0, 2},
     nextPlayerPenaltyCount : {0}]

PurityInit ==
    /\ gameState = InitialGameState
    /\ inStore = TRUE
    /\ turnNo = 0
    /\ lastCall = Recorded(NoOutcome)
    /\ inFlight = NoFlight
    /\ call \in PurityCalls
    /\ verdict = NoVerdict

PurityNext ==
    \/ Evaluate
    \/ turnNo < PurityTurns /\ Next

PuritySpec == PurityInit /\ [][PurityNext]_vars

ReplenishmentBeforeEachDraw ==
    Admitted =>
        \A i \in 1..Len(drawsOf(lastCall.req)) :
            ~(/\ Len(lastCall.deckAtDraw) - (i - 1) <= minimumDeckSize
              /\ Len(lastCall.afterDraws.playedCards) > 1)

\* The cards of the plays the latest call applied, in the order applied.
AppliedPlays == [i \in DOMAIN lastCall.log |-> lastCall.log[i].card]

\* hand.filter(c => c is none of cards)
Without(hand, cards) == SelectSeq(hand, LAMBDA c : c \notin SeqToSet(cards))

OnlyExpectedActorMoves ==
    (Admitted /\ lastCall.req.from # lastCall.pre.currentTurn)
        => SessionFields(gameState) = SessionFields(lastCall.pre)

\* C40: a play is applied only for a card that is in the actor's hand, and
\* each applied play takes exactly one card from the hand and appends exactly
\* that card to the discard pile.
PlayTakesCardFromHand ==
    Admitted =>
        \A i \in DOMAIN lastCall.log :
            LET from == lastCall.req.from
                before == LogBefore(i)
                after == lastCall.log[i].after
                card == lastCall.log[i].card
            IN  /\ card \in SeqToSet(before.players[from])
                /\ Len(after.players[from]) = Len(before.players[from]) - 1
                /\ after.playedCards = Append(before.playedCards, card)

(***************************************************************************)
(* Two turns submitted together.  A call of handleMove runs from where it  *)
(* stands to its next await or to its end without another call running in  *)
(* between; handleMoveAwaits are the places where handleMove awaits.       *)
(***************************************************************************)
\* A variant of handleMove's awaits: one between two play sub-actions.
handleMoveAwaitingBetweenPlays == {"betweenPlays"}

\* handleMove (handleMove.ts 214-373) is declared async and holds no await.
handleMoveAwaits == {}

\* A call of handleMove in progress: its request, its position (pc, and k, the
\* play the for loop is at) and its local cuttingCardPlayed.  inFlight.read[i]
\* is the game state the i-th call found when it started (the base state
\* until then).
Job(req) == [req |-> req, pc |-> "start", k |-> 1, cut |-> FALSE]

\* One stretch of handleMove: the validations, the timer and the draw phase;
\* or one pass of the for loop over playActions; or what follows the loop.
step(st, newDeck, now) ==
    LET gs == st.gs
        job == st.job
        req == job.req
        playActions == SelectSeq(req.cards, IsPlay)
        drawActions == SelectSeq(req.cards, IsDraw)
    IN  IF job.pc = "start"
          THEN IF ~(st.stored /\ req.gameId = GameId) \/ req.from \notin PlayerIds
                 THEN [st EXCEPT !.job.pc = "done"]
                 ELSE LET gs0 == [gs EXCEPT !.waitTimeout = Null]
                          drawResult == IF drawActions # <<>>
                                          THEN processDrawAction(gs0, req.from,
                                                                 MapAsCard(drawActions), newDeck)
                                          ELSE NoDraw(gs0)
                      IN  [st EXCEPT !.gs = drawResult.gs, !.job.pc = "play"]
        ELSE IF job.k <= Len(playActions)
          THEN LET result == processPlayAction(gs, req.from, AsCard(playActions[job.k]),
                                               req.newSuit)
               IN  IF result.remainingCards = 1
                     THEN [gs |-> result.gs, stored |-> storedAfterEndGame,
                           job |-> [job EXCEPT !.pc = "done"]]
                     ELSE [gs |-> result.gs, stored |-> st.stored,
                           job |-> [job EXCEPT !.k = @ + 1,
                                               !.cut = @ \/ result.isCuttingCard]]
        ELSE IF job.cut
          THEN [st EXCEPT !.stored = storedAfterEndGame, !.job.pc = "done"]
        ELSE LET gs1 == [gs EXCEPT !.currentTurn = req.to,
                                   !.turnExpiresAt = now + PLAY_TIMEOUT_DURATION]
                 gs2 == notifyMap(gs1, req.cards, req.newSuit, 1)
                 gs3 == IF gs2.activePenaltyCount # 0
                          THEN [gs2 EXCEPT !.activePenaltyCount = 0] ELSE gs2
             IN  [gs |-> gs3, stored |-> TRUE, job |-> [job EXCEPT !.pc = "done"]]

\* The call stands at an await.
AtAwait(job) ==
    /\ job.pc = "play"
    /\ \/ job.k = 1 /\ "afterDraws" \in handleMoveAwaits
       \/ /\ job.k > 1 /\ job.k <= Len(SelectSeq(job.req.cards, IsPlay))
          /\ "betweenPlays" \in handleMoveAwaits

\* The call runs until it stands at an await or has returned.
RECURSIVE runToAwait(_, _, _)
runToAwait(st, newDeck, now) ==
    LET next == step(st, newDeck, now)
    IN  IF next.job.pc = "done" \/ AtAwait(next.job) THEN next
        ELSE runToAwait(next, newDeck, now)

\* The turns two clients can send at the same time in a state.
ConcurrentRequests(gs) ==
    UNION {{Request(GameId, from, opponentOf(from), cards, NoSuit) :
               cards \in UNION {CardLists(gs, from, drawn) : drawn \in DrawClaims(gs, from)}} :
           from \in PlayerIds}

ConcurrentInit ==
    /\ gameState = InitialGameState
    /\ inStore = TRUE
    /\ turnNo = 0
    /\ lastCall = Recorded(NoOutcome)
    /\ call = NoCall
    /\ verdict = NoVerdict
    /\ inFlight = NoFlight

\* Two messages arrive before either is handled.
Submit ==
    /\ inFlight = NoFlight
    /\ \E r1 \in ConcurrentRequests(gameState), r2 \in ConcurrentRequests(gameState) :
           inFlight' = [base |-> gameState, baseTurn |-> turnNo,
                        jobs |-> <<Job(r1), Job(r2)>>,
                        read |-> <<gameState, gameState>>]
    /\ UNCHANGED <<sessionVars, engineVars>>

\* The event loop runs the i-th call, from its start or from the await it
\* stands at.
Resume(i) ==
    /\ inFlight # NoFlight
    /\ inFlight.jobs[i].pc # "done"
    /\ LET job == inFlight.jobs[i]
       IN  \E newDeck \in (IF job.pc = "start" THEN Shuffles(gameState, job.req) ELSE {<<>>}) :
             \E st \in {runToAwait([gs |-> gameState, stored |-> inStore, job |-> job],
                                   newDeck, turnNo + 1)} :
               /\ gameState' = st.gs
               /\ inStore' = st.stored
               /\ turnNo' = IF st.job.pc = "done" THEN turnNo + 1 ELSE turnNo
               /\ inFlight' = [inFlight EXCEPT !.jobs[i] = st.job,
                                               !.read[i] = IF job.pc = "start"
                                                             THEN gameState ELSE @]
    /\ UNCHANGED <<lastCall, engineVars>>

ConcurrentNext == Submit \/ \E i \in 1..2 : Resume(i)

ConcurrentSpec == ConcurrentInit /\ [][ConcurrentNext]_vars

\* What handling the a-th request alone leaves of the base state.
AloneResults(a) ==
    {handleMove(inFlight.base, TRUE, inFlight.jobs[a].req, d, inFlight.baseTurn + 1, PlayerIds) :
        d \in Shuffles(inFlight.base, inFlight.jobs[a].req)}

\* What handling the a-th request and then the b-th leaves of the base state.
SerialResults(a, b) ==
    UNION {{LET o2 == handleMove(o1.gs, o1.stored, inFlight.jobs[b].req, d,
                                 inFlight.baseTurn + 2, PlayerIds)
            IN  <<o2.gs, o2.stored>> :
               d \in Shuffles(o1.gs, inFlight.jobs[b].req)} :
           o1 \in AloneResults(a)}

BothReturned ==
    /\ inFlight # NoFlight
    /\ \A i \in 1..2 : inFlight.jobs[i].pc = "done"

\* C38: applying a turn is atomic with respect to other turns on the session.
\* Two turns submitted together leave the state that handling one and then
\* the other leaves, in one of the two orders, and the state a call starts
\* from is the base state or the state the other call left on its return,
\* never one with the other call's draws or plays applied in part.
ConcurrentTurnsSerialize ==
    inFlight # NoFlight =>
        /\ BothReturned =>
              <<gameState, inStore>> \in SerialResults(1, 2) \cup SerialResults(2, 1)
        /\ \A i \in 1..2 :
              \/ inFlight.read[i] = inFlight.base
              \/ inFlight.read[i] \in {o.gs : o \in AloneResults(3 - i)}

\* C38 witness: two turns of two plays and of one play, by different
\* participants, submitted together and both applied.
ConcurrentTurnsWitness ==
    /\ BothReturned
    /\ inFlight.jobs[1].req.from # inFlight.jobs[2].req.from
    /\ Len(SelectSeq(inFlight.jobs[1].req.cards, IsPlay)) = 2
    /\ Len(SelectSeq(inFlight.jobs[2].req.cards, IsPlay)) = 1
    /\ Len(gameState.playedCards) = Len(inFlight.base.playedCards) + 3

=============================================================================
